---- MODULE Spec2Model ----
(***************************************************************************)
(* A model of iattc-crawler.py: the change-driven ingestion cycle of       *)
(* IATTCDataMonitor (detect_changes, get_zip_files, the thread pool of     *)
(* FileDownloader.download tasks, the recursive processor chain).          *)
(***************************************************************************)
EXTENDS Integers, Sequences, FiniteSets, TLC

\* ------------------------------------------------------------------ bounds
\* Number of monitoring cycles the scheduler starts in a behaviour.
MaxCycles == 2
\* Number of times the remote page is edited in a behaviour.
MaxChanges == 1
\* Longest list of processors a monitor is constructed with.
MaxRegistry == 2

\* ------------------------------------------------------------------ Config
retry_attempts == 3
max_workers == 4

None == "None"

\* FileInfo.size when it was never set (None); sizes are numbers otherwise.
NoSize == -1

\* ------------------------------------------------------ the remote site
\* An href target: directory, stem and extension of its URL path.
Link(d, s, e) == [dir |-> d, stem |-> s, ext |-> e]

\* The bodies the source page can have: the sequence of its href targets.
Pages == {"P1", "P2", "P3", "P4"}

PageBody(p) ==
  CASE p = "P1" -> << Link("a", "x", "zip"), Link("", "y", "ZIP"),
                      Link("", "notes", "txt") >>
    [] p = "P2" -> << Link("a", "x", "zip"), Link("b", "x", "zip") >>
    [] p = "P3" -> << Link("", "y", "ZIP") >>
    [] OTHER -> << Link("", "notes", "txt") >>

\* str.lower() on the extensions that occur.
Lower(e) == IF e = "ZIP" THEN "zip" ELSE IF e = "CSV" THEN "csv" ELSE e

\* hashlib.md5(response.content).hexdigest(): a digest of the page body.
md5(p) ==
  CASE p = "P1" -> "d41d" [] p = "P2" -> "9e10" [] p = "P3" -> "c4ca"
    [] OTHER -> "7fc5"

\* File contents. NESTED is an archive holding inner.zip (INNER), which holds
\* data.csv; FLAT is an archive holding four tabular files: data.csv (UTF-8),
\* empty.csv (CSV_EMPTY: a header line and no record), odd.csv (CSV_1COL: one
\* column, so csv.Sniffer finds no delimiter) and latin.csv (CSV_L1: bytes
\* that are not UTF-8); JUNK is a body that is no archive (an error page served with
\* status 200); PART is what a broken stream leaves; EMPTY is a file just
\* opened for writing; MIXED is what two tasks leave that wrote their chunks
\* to the same file at the same time. SELF2 is an archive x.zip holding x.zip
\* (SELF1), which holds x.zip (SELF0), which holds data.csv.
Member(s, e, b) == [stem |-> s, ext |-> e, blob |-> b]

namelist(b) ==
  CASE b = "NESTED" -> << Member("inner", "zip", "INNER") >>
    [] b = "INNER" -> << Member("data", "csv", "CSV") >>
    [] b = "FLAT" -> << Member("data", "csv", "CSV"),
                        Member("empty", "csv", "CSV_EMPTY"),
                        Member("odd", "csv", "CSV_1COL"),
                        Member("latin", "csv", "CSV_L1") >>
    [] b = "SELF2" -> << Member("x", "zip", "SELF1") >>
    [] b = "SELF1" -> << Member("x", "zip", "SELF0") >>
    [] b = "SELF0" -> << Member("data", "csv", "CSV") >>
    [] OTHER -> << >>

\* zipfile.ZipFile(path) opens the file without raising BadZipFile.
IsZip(b) == b \in {"NESTED", "INNER", "FLAT", "SELF2", "SELF1", "SELF0"}

\* Path.stat().st_size
st_size(b) ==
  CASE b \in {"NESTED", "JUNK", "MIXED"} -> 3
    [] b \in {"FLAT", "INNER", "CSV", "CSV_L1", "CSV_EMPTY", "CSV_1COL", "JSON"} -> 2
    [] b = "PART" -> 1
    [] OTHER -> 0

\* The artifact the site holds at a URL.
Server(url) == IF url.dir = "a" THEN "NESTED" ELSE "FLAT"

\* The bodies a successful GET of an artifact URL can carry.
Bodies(url) == {Server(url), "JUNK"}

\* ------------------------------------------------------------ variables
VARIABLES
  registry,   \* self.file_processors: the list the monitor was constructed with
  page,       \* the body the remote site serves now
  changes,    \* edits of the remote page so far
  cache,      \* site_cache.json: Absent, Corrupt or a Dict
  cycle,      \* cycles started so far; datetime.now() of the running cycle
  pc,         \* position of run_monitoring_cycle
  req,        \* the running _make_request: attempt, sleeps, response
  det,        \* the last detect_changes call: its return value and the body
              \* it fingerprinted; while pc = "detected" also the cache before
              \* it, whether it raised, and the body the call before it saw
  notes,      \* notify() calls of the running cycle: their severities
  zip_files,  \* the FileInfo list get_zip_files returned; heads and probe
              \* observe the HEAD requests sent for the link and, until the
              \* downloads are submitted, how they ended
  listed,     \* the page body get_zip_files read, None before it is called
  tasks,      \* the download futures of the running cycle; pre, fetches and
              \* fault observe the task: the file was there with the expected
              \* size at submission, the GETs sent, what went wrong for it
  downloaded_files, \* what _download_files_concurrently has collected
  files,      \* the filesystem: path -> content, for the paths that exist
  todo,       \* _process_single_file calls still to make, depth first
  processed,  \* all_processed_files of the running cycle
  calls,      \* the paths _process_single_file was called with, in order
  invoked     \* the processor.process calls made: processor and path

vars == << registry, page, changes, cache, cycle, pc, req, det, notes, zip_files, listed,
           tasks, downloaded_files, files, todo, processed, calls, invoked >>

\* ----------------------------------------------------- WebsiteMonitor
NoReq == [attempt |-> 0, sleeps |-> << >>, status |-> "running", response |-> None]

Pow2(n) == IF n = 0 THEN 1 ELSE 2 * (IF n = 1 THEN 1 ELSE IF n = 2 THEN 2 ELSE 4)

\* One pass of the loop of _make_request: session.get succeeds (ok) with the
\* body the site serves, or raises RequestException; the loop sleeps after
\* every failed attempt and returns None after the last one.
make_request(r, ok, body) ==
  IF ok
  THEN [r EXCEPT !.status = "ok", !.response = body]
  ELSE [r EXCEPT !.attempt = r.attempt + 1,
                 !.sleeps = Append(r.sleeps, Pow2(r.attempt)),
                 !.status = IF r.attempt + 1 = retry_attempts
                            THEN "failed" ELSE "running"]

\* The states of site_cache.json: missing, not parseable, or a JSON dict.
Absent == [kind |-> "absent"]
Corrupt == [kind |-> "corrupt"]
Dict(h, t) == [kind |-> "dict", page_hash |-> h, last_check |-> t]

\* _load_cache().get('page_hash'): {} stands for a missing or unreadable file.
load_cache(c) == IF c.kind = "dict" THEN c.page_hash ELSE None

\* How open(cache_file, 'w') and json.dump can end.
SaveOutcomes == {"ok", "open_failed", "write_failed"}

\* _save_cache: the file after the call. open() truncates the file before
\* json.dump writes it; every exception is logged and swallowed.
save_cache(c, data, outcome) ==
  CASE outcome = "ok" -> data
    [] outcome = "open_failed" -> c
    [] OTHER -> Corrupt

NoDet == [ret |-> FALSE, fetched |-> None, raised |-> FALSE, before |-> Absent,
          prev |-> None]

\* What stays known of a detect_changes call once the cycle has moved on.
Returned(d) == [NoDet EXCEPT !.ret = d.ret, !.fetched = d.fetched]

\* detect_changes with a failed fetch reported as a change.
detect_changes_failed_is_change(r, c, now, raised, outcome) ==
  IF r.status = "failed" \/ raised
  THEN << TRUE, c >>
  ELSE IF md5(r.response) # load_cache(c)
       THEN << TRUE, save_cache(c, Dict(md5(r.response), now), outcome) >>
       ELSE << FALSE, c >>

\* detect_changes after _make_request returned: << return value, cache >>.
\* raised: an exception inside the try block before the comparison.
detect_changes(r, c, now, raised, outcome) ==
  IF r.status = "failed" \/ raised
  THEN << FALSE, c >>
  ELSE LET current_hash == md5(r.response)
           previous_hash == load_cache(c)
       IN IF current_hash # previous_hash
          THEN << TRUE, save_cache(c, Dict(current_hash, now), outcome) >>
          ELSE << FALSE, c >>

\* How session.head can end: with a 2xx response that has a content-length
\* header ("ok") or has none ("nohdr"), with a non-2xx response whose
\* content-length is that of the error page ("errpage"), or by raising
\* ("fail": a network error or a timeout).
ProbeOutcomes == {"ok", "nohdr", "errpage", "fail"}

\* _enrich_file_info: the size the FileInfo ends with, after the one
\* session.head it sends (heads counts the HEAD requests sent for the link).
\* The status of the response is not looked at.
enrich_file_info(url, outcome) ==
  CASE outcome = "ok" -> st_size(Server(url))
    [] outcome = "nohdr" -> 0
    [] outcome = "errpage" -> st_size("JUNK")
    [] OTHER -> NoSize

\* The hrefs the zip_pattern of get_zip_files matches.
ZipLinks(body) == SelectSeq(PageBody(body), LAMBDA l : Lower(l.ext) = "zip")

\* get_zip_files after _make_request returned.
get_zip_files(r, probes) ==
  IF r.status = "failed"
  THEN << >>
  ELSE LET links == ZipLinks(r.response)
       IN [i \in 1 .. Len(links) |->
             [url |-> links[i],
              filename |-> [stem |-> links[i].stem, ext |-> links[i].ext],
              size |-> enrich_file_info(links[i], probes[i]),
              heads |-> 1, probe |-> probes[i]]]

\* ------------------------------------------------------- the filesystem
EmptyFs == [p \in {} |-> None]

Path(d, s, e) == [dir |-> d, stem |-> s, ext |-> e]

exists(fs, p) == p \in DOMAIN fs

write(fs, p, b) == [q \in DOMAIN fs \cup {p} |-> IF q = p THEN b ELSE fs[q]]

unlink(fs, p) == [q \in DOMAIN fs \ {p} |-> fs[q]]

\* Path(self.config.download_dir) / file_info.filename
Destination(fi) == Path(<< "downloads" >>, fi.filename.stem, fi.filename.ext)

\* ------------------------------------------------------- FileDownloader
\* Python's truth value of FileInfo.size.
Truthy(size) == size # NoSize /\ size # 0

\* _validate_existing_file
validate_existing_file(fs, p, fi) ==
  /\ exists(fs, p)
  /\ ~(Truthy(fi.size) /\ st_size(fs[p]) # fi.size)

\* _validate_download
validate_download(fs, p, fi) ==
  /\ exists(fs, p)
  /\ ~(Truthy(fi.size) /\ st_size(fs[p]) # fi.size)
  /\ IsZip(fs[p])

NewTask(fs, fi) ==
  [pc |-> "queued", body |-> None, result |-> FALSE, fetches |-> 0,
   fault |-> "none",
   pre |-> exists(fs, Destination(fi)) /\ Truthy(fi.size)
           /\ st_size(fs[Destination(fi)]) = fi.size]

Running(ts) == {i \in DOMAIN ts : ts[i].pc \notin {"queued", "done"}}

\* ----------------------------------------------------- the processors
\* create_monitor: the registry, in order.
file_processors == << "ZipProcessor", "CSVToJSONConverter" >>

\* can_process of either processor: a match on the lower-cased suffix.
can_process(proc, p) ==
  \/ proc = "ZipProcessor" /\ Lower(p.ext) = "zip"
  \/ proc = "CSVToJSONConverter" /\ Lower(p.ext) = "csv"

OutputDir == << "json_output" >>

\* ZipProcessor.process: << extracted paths, filesystem after >>. Every member
\* is extracted into output_dir / stem of the archive; BadZipFile is caught
\* and yields [].
RECURSIVE extractall(_, _, _)
extractall(fs, d, members) ==
  IF members = << >> THEN fs
  ELSE extractall(write(fs, Path(d, Head(members).stem, Head(members).ext),
                        Head(members).blob), d, Tail(members))

ZipProcessor_process(fs, p) ==
  IF ~exists(fs, p) \/ ~IsZip(fs[p])
  THEN << << >>, fs >>
  ELSE LET extract_dir == Append(OutputDir, p.stem)
           members == namelist(fs[p])
       IN << [i \in 1 .. Len(members) |->
                Path(extract_dir, members[i].stem, members[i].ext)],
             extractall(fs, extract_dir, members) >>

\* _read_csv: the candidate encodings, in the order they are tried.
encodings == << "utf-8", "latin-1", "cp1252" >>

\* One pass of the loop of _read_csv on the content with one encoding: the
\* reader yields records ("rows") or none ("norows"), the text does not
\* decode ("decode_error"), or something else raises ("error").
Try(b, enc) ==
  CASE b = "CSV" -> "rows"
    [] b = "CSV_L1" -> IF enc = "utf-8" THEN "decode_error" ELSE "rows"
    [] b = "CSV_EMPTY" -> "norows"
    [] OTHER -> "error"

\* The loop of _read_csv from candidate k on: it breaks at the first
\* candidate that reads the file through; data is the number of records.
RECURSIVE read_csv_from(_, _)
read_csv_from(b, k) ==
  IF k > Len(encodings)
  THEN [data |-> 0, encoding |-> None, tried |-> Len(encodings)]
  ELSE IF Try(b, encodings[k]) \in {"rows", "norows"}
       THEN [data |-> IF Try(b, encodings[k]) = "rows" THEN 1 ELSE 0,
             encoding |-> encodings[k], tried |-> k]
       ELSE read_csv_from(b, k + 1)

\* _read_csv: what the loop ends with; it raises "Could not read CSV file with
\* any encoding" when data is empty.
read_csv(b) ==
  LET r == read_csv_from(b, 1)
  IN [data |-> r.data, encoding |-> r.encoding, tried |-> r.tried,
      raises |-> r.data = 0]

\* _read_csv yields rows for this content (it raises when it gets none).
Readable(b) == ~read_csv(b).raises

\* CSVToJSONConverter.process: << [json_path], filesystem after >>, or [] when
\* _read_csv raised.
CSVToJSONConverter_process(fs, p) ==
  IF ~exists(fs, p) \/ ~Readable(fs[p])
  THEN << << >>, fs >>
  ELSE LET json_path == Path(OutputDir, p.stem, "json")
       IN << << json_path >>, write(fs, json_path, "JSON") >>

process(proc, fs, p) ==
  IF proc = "ZipProcessor" THEN ZipProcessor_process(fs, p)
  ELSE CSVToJSONConverter_process(fs, p)

\* The members of the archive at p that extractall writes onto p itself (a
\* member with the archive's own name, in an archive that was itself extracted
\* into output_dir / stem).
SelfMembers(fs, p) ==
  IF ~exists(fs, p) \/ ~IsZip(fs[p]) THEN {}
  ELSE {k \in DOMAIN namelist(fs[p]) :
          Path(Append(OutputDir, p.stem), namelist(fs[p])[k].stem,
               namelist(fs[p])[k].ext) = p}

\* ZipProcessor.process on an archive that holds a member extracted onto the
\* archive itself: extractall opens the target for writing, which truncates
\* the file it is reading. The member's bytes were already buffered and the
\* extraction goes through, or the read fails, the exception is caught and []
\* is returned with the members before it extracted and the archive empty.
ZipProcessor_outcomes(fs, p) ==
  IF SelfMembers(fs, p) = {}
  THEN {ZipProcessor_process(fs, p)}
  ELSE LET k == CHOOSE m \in SelfMembers(fs, p) :
                  \A o \in SelfMembers(fs, p) : m <= o
           before == extractall(fs, Append(OutputDir, p.stem),
                                SubSeq(namelist(fs[p]), 1, k - 1))
       IN {ZipProcessor_process(fs, p), << << >>, write(before, p, "EMPTY") >>}

\* The ways processor.process(file_path, output_dir) can end.
outcomes(proc, fs, p) ==
  IF proc = "ZipProcessor" THEN ZipProcessor_outcomes(fs, p)
  ELSE {process(proc, fs, p)}

\* Work items of the chain: a _process_single_file call still to make, or a
\* process call of one matching processor still to make.
CallItem(p) == [kind |-> "call", proc |-> None, path |-> p]
ApplyItem(proc, p) == [kind |-> "apply", proc |-> proc, path |-> p]

\* The processors of the registry that claim the path, in registry order.
Matching(p) == SelectSeq(registry, LAMBDA proc : can_process(proc, p))

\* _process_single_file entered with the path: one item per matching processor.
process_single_file(p) ==
  [k \in 1 .. Len(Matching(p)) |-> ApplyItem(Matching(p)[k], p)]

\* The feedback without the isinstance(processor, ZipProcessor) test.
Refed_every_processor(proc, results) ==
  [k \in 1 .. Len(results) |-> CallItem(results[k])]

\* The results that are fed back into _process_single_file.
Refed(proc, results) ==
  IF proc = "ZipProcessor"
  THEN [k \in 1 .. Len(results) |-> CallItem(results[k])]
  ELSE << >>

\* ------------------------------------------------------------- actions
Init ==
  /\ registry = file_processors
  /\ page \in Pages
  /\ changes = 0
  /\ cache = Absent
  /\ cycle = 0
  /\ pc = "idle"
  /\ req = NoReq
  /\ det = NoDet
  /\ notes = << >>
  /\ zip_files = << >>
  /\ listed = None
  /\ tasks = << >>
  /\ downloaded_files = << >>
  /\ files = EmptyFs
  /\ todo = << >>
  /\ processed = << >>
  /\ calls = << >>
  /\ invoked = << >>

\* The site's maintainers edit the page. The program reads the page only in
\* _make_request, so an edit matters only while a request is about to be sent.
PageChange ==
  /\ changes < MaxChanges
  /\ pc \in {"detect", "list"}
  /\ req.status = "running"
  /\ \E p \in Pages \ {page} : page' = p
  /\ changes' = changes + 1
  /\ UNCHANGED << registry, cache, cycle, pc, req, det, notes, zip_files, listed,
                  tasks, downloaded_files, files, todo, processed, calls, invoked >>

\* The scheduler calls run_monitoring_cycle, which calls detect_changes.
StartCycle ==
  /\ pc = "idle"
  /\ cycle < MaxCycles
  /\ cycle' = cycle + 1
  /\ pc' = "detect"
  /\ req' = NoReq
  /\ notes' = << >>
  /\ zip_files' = << >>
  /\ listed' = None
  /\ tasks' = << >>
  /\ downloaded_files' = << >>
  /\ todo' = << >>
  /\ processed' = << >>
  /\ calls' = << >>
  /\ invoked' = << >>
  /\ UNCHANGED << registry, page, changes, cache, det, files >>

\* One attempt of the _make_request that detect_changes or get_zip_files runs.
RequestTry ==
  /\ pc \in {"detect", "list"}
  /\ req.status = "running"
  /\ \E ok \in BOOLEAN : req' = make_request(req, ok, page)
  /\ UNCHANGED << registry, page, changes, cache, cycle, pc, det, notes, zip_files, listed,
                  tasks, downloaded_files, files, todo, processed, calls, invoked >>

\* The rest of detect_changes once _make_request has returned.
DetectChanges ==
  /\ pc = "detect"
  /\ req.status # "running"
  /\ \E raised \in BOOLEAN, outcome \in SaveOutcomes :
       LET res == detect_changes(req, cache, cycle, raised, outcome)
           seen == IF req.status = "ok" /\ ~raised THEN req.response ELSE None
       IN /\ cache' = res[2]
          /\ det' = [ret |-> res[1], fetched |-> seen,
                     raised |-> raised /\ req.status = "ok",
                     before |-> cache, prev |-> det.fetched]
  /\ pc' = "detected"
  /\ req' = NoReq
  /\ UNCHANGED << registry, page, changes, cycle, notes, zip_files, listed, tasks,
                  downloaded_files, files, todo, processed, calls, invoked >>

\* run_monitoring_cycle without the return after "No changes detected".
NoChanges_falls_through ==
  /\ pc = "detected"
  /\ ~det.ret
  /\ pc' = "list"
  /\ det' = Returned(det)
  /\ UNCHANGED << registry, page, changes, cache, cycle, req, notes, zip_files, listed,
                  tasks, downloaded_files, files, todo, processed, calls, invoked >>

\* run_monitoring_cycle: detect_changes returned False.
NoChanges ==
  /\ pc = "detected"
  /\ ~det.ret
  /\ pc' = "idle"
  /\ det' = Returned(det)
  /\ UNCHANGED << registry, page, changes, cache, cycle, req, notes, zip_files, listed,
                  tasks, downloaded_files, files, todo, processed, calls, invoked >>

\* run_monitoring_cycle: detect_changes returned True; notify, then list.
ChangesDetected ==
  /\ pc = "detected"
  /\ det.ret
  /\ notes' = Append(notes, "INFO")
  /\ pc' = "list"
  /\ det' = Returned(det)
  /\ UNCHANGED << registry, page, changes, cache, cycle, req, zip_files, listed, tasks,
                  downloaded_files, files, todo, processed, calls, invoked >>

\* The rest of get_zip_files once _make_request has returned: match the
\* links and probe each with a HEAD request.
GetZipFiles ==
  /\ pc = "list"
  /\ req.status # "running"
  /\ LET n == IF req.status = "ok" THEN Len(ZipLinks(req.response)) ELSE 0
     IN \E probes \in [1 .. n -> ProbeOutcomes] :
          zip_files' = get_zip_files(req, probes)
  /\ listed' = IF req.status = "ok" THEN req.response ELSE "failed"
  /\ pc' = "listed"
  /\ req' = NoReq
  /\ UNCHANGED << registry, page, changes, cache, cycle, det, notes, tasks,
                  downloaded_files, files, todo, processed, calls, invoked >>

\* run_monitoring_cycle: get_zip_files returned an empty list.
NoZipFiles ==
  /\ pc = "listed"
  /\ zip_files = << >>
  /\ pc' = "idle"
  /\ UNCHANGED << registry, page, changes, cache, cycle, req, det, notes, zip_files, listed,
                  tasks, downloaded_files, files, todo, processed, calls, invoked >>

\* _download_files_concurrently: submit one download per FileInfo. How the
\* probe of a link ended is known while the list is being returned only.
SubmitDownloads ==
  /\ pc = "listed"
  /\ zip_files # << >>
  /\ tasks' = [i \in DOMAIN zip_files |-> NewTask(files, zip_files[i])]
  /\ pc' = "download"
  /\ zip_files' = [i \in DOMAIN zip_files |-> [zip_files[i] EXCEPT !.probe = "ok"]]
  /\ UNCHANGED << registry, page, changes, cache, cycle, req, det, notes, listed,
                  downloaded_files, files, todo, processed, calls, invoked >>

\* _download_files_concurrently: the first executor.submit cannot start a
\* worker thread and raises RuntimeError. No download has started; the
\* exception reaches the handler of run_monitoring_cycle, which notifies at
\* ERROR severity and returns.
CycleError ==
  /\ pc = "listed"
  /\ zip_files # << >>
  /\ notes' = Append(notes, "ERROR")
  /\ pc' = "idle"
  /\ UNCHANGED << registry, page, changes, cache, cycle, req, det, zip_files, listed, tasks,
                  downloaded_files, files, todo, processed, calls, invoked >>

\* The future of task i completes with the result: as_completed yields it and
\* the loop of _download_files_concurrently appends its path when it is True.
Complete(ts, i, result) ==
  [ts EXCEPT ![i] = [@ EXCEPT !.pc = "done", !.result = result, !.body = None]]

collect(got, result, p) == IF result THEN Append(got, p) ELSE got

\* download: a worker takes the task; the file is there and passes
\* _validate_existing_file, or the task goes on to fetch it.
DlCheck(i) ==
  /\ pc = "download"
  /\ tasks[i].pc = "queued"
  /\ Cardinality(Running(tasks)) < max_workers
  /\ LET fi == zip_files[i]
         dest == Destination(fi)
     IN IF exists(files, dest) /\ validate_existing_file(files, dest, fi)
        THEN /\ tasks' = Complete(tasks, i, TRUE)
             /\ downloaded_files' = collect(downloaded_files, TRUE, dest)
        ELSE /\ tasks' = [tasks EXCEPT ![i] = [@ EXCEPT !.pc = "get"]]
             /\ downloaded_files' = downloaded_files
  /\ UNCHANGED << registry, page, changes, cache, cycle, pc, req, det, notes, zip_files,
                  listed, files, todo, processed, calls, invoked >>

\* download: the single session.get; it raises, or the destination is opened
\* for writing (and so truncated).
DlGet(i) ==
  /\ pc = "download"
  /\ tasks[i].pc = "get"
  /\ \/ /\ tasks' = Complete([tasks EXCEPT ![i] = [@ EXCEPT !.fetches = @ + 1,
                                                             !.fault = "get"]],
                             i, FALSE)
        /\ files' = files
     \/ \E b \in Bodies(zip_files[i].url) :
          /\ tasks' = [tasks EXCEPT ![i] = [@ EXCEPT
                         !.pc = "stream", !.body = b, !.fetches = @ + 1,
                         !.fault = IF IsZip(b) THEN "none" ELSE "body"]]
          /\ files' = write(files, Destination(zip_files[i]), "EMPTY")
  /\ UNCHANGED << registry, page, changes, cache, cycle, pc, req, det, notes, zip_files,
                  listed, downloaded_files, todo, processed, calls, invoked >>

\* Another task wrote to the destination of task i after task i opened it, or
\* has it open for writing now.
Contended(fs, ts, i) ==
  \/ /\ exists(fs, Destination(zip_files[i]))
     /\ fs[Destination(zip_files[i])] # "EMPTY"
  \/ \E j \in DOMAIN ts \ {i} :
       /\ Destination(zip_files[j]) = Destination(zip_files[i])
       /\ ts[j].pc = "stream"

\* What the file can hold when task i has written its last chunk: its body,
\* or, when another task's chunks went to the same file, a mix of both.
Written(fs, ts, i) ==
  IF Contended(fs, ts, i) THEN {ts[i].body, "MIXED"} ELSE {ts[i].body}

\* The filesystem once task i has written b through its open file: when
\* another task has unlinked the destination meanwhile, the chunks went to a
\* file that no path names any more.
Landed(fs, i, b) ==
  IF exists(fs, Destination(zip_files[i]))
  THEN write(fs, Destination(zip_files[i]), b)
  ELSE fs

\* download: the chunks are written; the stream may break on the way, and the
\* exception handler returns False without removing what was written.
DlStream(i) ==
  /\ pc = "download"
  /\ tasks[i].pc = "stream"
  /\ \/ /\ \E b \in Written(files, tasks, i) :
             files' = Landed(files, i, b)
        /\ tasks' = [tasks EXCEPT ![i] = [@ EXCEPT !.pc = "validate"]]
     \/ /\ files' = Landed(files, i, "PART")
        /\ tasks' = Complete([tasks EXCEPT ![i] = [@ EXCEPT !.fault = "stream"]],
                             i, FALSE)
  /\ UNCHANGED << registry, page, changes, cache, cycle, pc, req, det, notes, zip_files,
                  listed, downloaded_files, todo, processed, calls, invoked >>

\* download: _validate_download on what is at the destination now.
DlValidate(i) ==
  /\ pc = "download"
  /\ tasks[i].pc = "validate"
  /\ LET dest == Destination(zip_files[i])
     IN IF validate_download(files, dest, zip_files[i])
        THEN /\ tasks' = Complete(tasks, i, TRUE)
             /\ downloaded_files' = collect(downloaded_files, TRUE, dest)
        ELSE /\ tasks' = [tasks EXCEPT ![i] = [@ EXCEPT !.pc = "unlink"]]
             /\ downloaded_files' = downloaded_files
  /\ UNCHANGED << registry, page, changes, cache, cycle, pc, req, det, notes, zip_files,
                  listed, files, todo, processed, calls, invoked >>

\* download: validation failed; destination.unlink(missing_ok=True), return False.
DlUnlink(i) ==
  /\ pc = "download"
  /\ tasks[i].pc = "unlink"
  /\ files' = unlink(files, Destination(zip_files[i]))
  /\ tasks' = Complete(tasks, i, FALSE)
  /\ UNCHANGED << registry, page, changes, cache, cycle, pc, req, det, notes, zip_files,
                  listed, downloaded_files, todo, processed, calls, invoked >>

\* _process_files started as soon as one download has completed.
ProcessFiles_before_pool_drained ==
  /\ pc = "download"
  /\ \E i \in DOMAIN tasks : tasks[i].pc = "done"
  /\ tasks' = << >>
  /\ todo' = [k \in 1 .. Len(downloaded_files) |-> CallItem(downloaded_files[k])]
  /\ pc' = "process"
  /\ UNCHANGED << registry, page, changes, cache, cycle, req, det, notes,
                  zip_files, listed, downloaded_files, files, processed, calls,
                  invoked >>

\* The pool has drained and every future was collected: the executor and its
\* futures are gone, and _process_files starts.
ProcessFiles ==
  /\ pc = "download"
  /\ \A i \in DOMAIN tasks : tasks[i].pc = "done"
  /\ tasks' = << >>
  /\ todo' = [k \in 1 .. Len(downloaded_files) |-> CallItem(downloaded_files[k])]
  /\ pc' = "process"
  /\ UNCHANGED << registry, page, changes, cache, cycle, req, det, notes, zip_files, listed,
                  downloaded_files, files, processed, calls, invoked >>

\* _process_single_file is entered with the next path, depth first.
RunOne ==
  /\ pc = "process"
  /\ todo # << >>
  /\ Head(todo).kind = "call"
  /\ calls' = Append(calls, Head(todo).path)
  /\ todo' = process_single_file(Head(todo).path) \o Tail(todo)
  /\ UNCHANGED << registry, page, changes, cache, cycle, pc, req, det, notes, zip_files,
                  listed, tasks, downloaded_files, files, processed, invoked >>

\* A failed processor.process call that ends the whole chain.
Process_failure_aborts ==
  /\ pc = "process"
  /\ todo # << >>
  /\ Head(todo).kind = "apply"
  /\ LET it == Head(todo)
     IN \E res \in outcomes(it.proc, files, it.path) :
          /\ files' = res[2]
          /\ processed' = processed \o res[1]
          /\ invoked' = Append(invoked, [proc |-> it.proc, path |-> it.path])
          /\ todo' = IF res[1] = << >> THEN << >>
                     ELSE Refed(it.proc, res[1]) \o Tail(todo)
  /\ UNCHANGED << registry, page, changes, cache, cycle, pc, req, det, notes,
                  zip_files, listed, tasks, downloaded_files, calls >>

\* A processor.process call that never returns.
Process_never_returns ==
  /\ pc = "process"
  /\ todo # << >>
  /\ Head(todo).kind = "apply"
  /\ UNCHANGED vars

\* One processor.process call of _process_single_file, and what it feeds back.
Process ==
  /\ pc = "process"
  /\ todo # << >>
  /\ Head(todo).kind = "apply"
  /\ LET it == Head(todo)
     IN \E res \in outcomes(it.proc, files, it.path) :
          /\ files' = res[2]
          /\ processed' = processed \o res[1]
          /\ invoked' = Append(invoked, [proc |-> it.proc, path |-> it.path])
          /\ todo' = Refed(it.proc, res[1]) \o Tail(todo)
  /\ UNCHANGED << registry, page, changes, cache, cycle, pc, req, det, notes, zip_files,
                  listed, tasks, downloaded_files, calls >>

\* run_monitoring_cycle: the chain is done; report and return.
FinishCycle ==
  /\ pc = "process"
  /\ todo = << >>
  /\ notes' = Append(notes, "INFO")
  /\ pc' = "idle"
  /\ UNCHANGED << registry, page, changes, cache, cycle, req, det, zip_files, listed, tasks,
                  downloaded_files, files, todo, processed, calls, invoked >>

Next ==
  \/ PageChange
  \/ StartCycle
  \/ RequestTry
  \/ DetectChanges
  \/ NoChanges
  \/ ChangesDetected
  \/ GetZipFiles
  \/ NoZipFiles
  \/ SubmitDownloads
  \/ CycleError
  \/ \E i \in DOMAIN tasks : DlCheck(i)
  \/ \E i \in DOMAIN tasks : DlGet(i)
  \/ \E i \in DOMAIN tasks : DlStream(i)
  \/ \E i \in DOMAIN tasks : DlValidate(i)
  \/ \E i \in DOMAIN tasks : DlUnlink(i)
  \/ ProcessFiles
  \/ RunOne
  \/ Process
  \/ FinishCycle

Spec == Init /\ [][Next]_vars

\* ------------------------------------------------- the chain on its own
\* _process_files entered with one file, under a monitor constructed with any
\* list of processors of at most MaxRegistry entries.
Processors == {"ZipProcessor", "CSVToJSONConverter"}

Registries ==
  UNION {[1 .. n -> Processors] : n \in 1 .. MaxRegistry}

ChainInputs ==
  {[path |-> Path(<< "downloads" >>, "x", "zip"), blob |-> b] :
     b \in {"NESTED", "FLAT", "SELF2", "JUNK"}}
  \cup {[path |-> Path(<< "downloads" >>, "data", "csv"), blob |-> "CSV_L1"]}

ChainInit ==
  /\ registry \in Registries
  /\ page = "P1"
  /\ changes = 0
  /\ cache = Absent
  /\ cycle = 1
  /\ pc = "process"
  /\ req = NoReq
  /\ det = NoDet
  /\ notes = << >>
  /\ zip_files = << >>
  /\ listed = None
  /\ tasks = << >>
  /\ \E inp \in ChainInputs :
       /\ downloaded_files = << inp.path >>
       /\ files = write(EmptyFs, inp.path, inp.blob)
       /\ todo = << CallItem(inp.path) >>
  /\ processed = << >>
  /\ calls = << >>
  /\ invoked = << >>

ChainNext == RunOne \/ Process

ChainSpec == ChainInit /\ [][ChainNext]_vars

\* The chain runs in one thread that nothing suspends: it takes its next step
\* whenever it has one.
ChainLive == ChainSpec /\ WF_vars(ChainNext)

\* ------------------------------------------------------------- claims
\* C1: detect returns true iff the fingerprint of the fetched page differs
\* from the stored one or none is stored, and whenever it returns true the
\* stored fingerprint is that of the page just fetched.
C1_DetectContract ==
  pc = "detected" =>
    /\ det.ret <=> (det.fetched # None /\ md5(det.fetched) # load_cache(det.before))
    /\ det.ret => load_cache(cache) = md5(det.fetched)

\* C2: a detect that fingerprints the same page body as the detect before it
\* returns false and leaves the stored fingerprint as it was.
C2_DetectIdempotent ==
  (pc = "detected" /\ det.prev # None /\ det.fetched = det.prev) =>
    /\ ~det.ret
    /\ cache = det.before

\* C3: when the page fetch fails after all retries, or an error occurs while
\* the fingerprint is computed or compared, detect returns false, no error
\* reaches the cycle, and the stored fingerprint is unchanged.
C3_DetectFailsSoftly ==
  (pc = "detected" /\ det.fetched = None) =>
    /\ ~det.ret
    /\ cache = det.before
    /\ notes = << >>

C3_Witness ==
  /\ pc = "detected"
  /\ det.raised
  /\ det.before.kind = "dict"

\* C4: in a cycle in which detect returns false there is no listing, no
\* download, no processing and no notification.
C4_UnchangedCycleDoesNothing ==
  (pc = "idle" /\ cycle > 0 /\ ~det.ret) =>
    /\ listed = None
    /\ zip_files = << >>
    /\ downloaded_files = << >>
    /\ calls = << >>
    /\ invoked = << >>
    /\ notes = << >>

C4_Witness ==
  /\ pc = "idle"
  /\ cycle = 2
  /\ ~det.ret
  /\ det.fetched # None
  /\ cache.kind = "dict"
  /\ DOMAIN files # {}


AllDone == pc = "download" /\ \A i \in DOMAIN tasks : tasks[i].pc = "done"

Range(q) == {q[k] : k \in DOMAIN q}

\* No other descriptor of the list has the destination of descriptor i.
Unshared(i) ==
  \A j \in DOMAIN zip_files \ {i} :
    Destination(zip_files[j]) # Destination(zip_files[i])

\* C5: a descriptor whose destination file exists with the expected size when
\* the downloads are submitted sends no fetch request and is reported a success.
C5_DownloadSkip ==
  \A i \in DOMAIN tasks :
    tasks[i].pre =>
      /\ tasks[i].fetches = 0
      /\ tasks[i].pc = "done" => tasks[i].result

\* C6: when exactly one descriptor fails (its fetch raises, its stream breaks,
\* its body is no archive, or the size its probe reported is not the
\* artifact's) and is reported failed, the result holds the other N-1
\* artifacts: every other descriptor succeeded and its file is still there.
WrongSize(fi) == Truthy(fi.size) /\ fi.size # st_size(Server(fi.url))

Faulty ==
  {i \in DOMAIN tasks : tasks[i].fault # "none" \/ WrongSize(zip_files[i])}

OneFailed ==
  /\ AllDone
  /\ Cardinality(Faulty) = 1
  /\ \A i \in Faulty : ~tasks[i].result

C6_PartialFailureIsolation ==
  OneFailed =>
    /\ Len(downloaded_files) = Len(zip_files) - 1
    /\ \A i \in DOMAIN tasks \ Faulty :
         /\ tasks[i].result
         /\ exists(files, Destination(zip_files[i]))

\* C5, C6 and C8 for the lists in which no two descriptors share a destination.
C5_WhenUnshared ==
  \A i \in DOMAIN tasks :
    (tasks[i].pre /\ Unshared(i)) =>
      /\ tasks[i].fetches = 0
      /\ tasks[i].pc = "done" => tasks[i].result

C6_WhenUnshared ==
  (OneFailed /\ \A i \in DOMAIN tasks : Unshared(i)) =>
    /\ Len(downloaded_files) = Len(zip_files) - 1
    /\ \A i \in DOMAIN tasks \ Faulty :
         /\ tasks[i].result
         /\ exists(files, Destination(zip_files[i]))

C8_WhenUnshared ==
  [][\A i \in DOMAIN tasks :
       (pc = "download" /\ pc' = "download" /\ tasks[i].pc = "unlink"
        /\ tasks'[i].pc = "done" /\ Unshared(i))
       => /\ ~exists(files', Destination(zip_files[i]))
          /\ ~tasks'[i].result
          /\ \A j \in DOMAIN tasks \ {i} :
               exists(files, Destination(zip_files[j]))
               => /\ exists(files', Destination(zip_files[j]))
                  /\ files'[Destination(zip_files[j])]
                       = files[Destination(zip_files[j])]]_vars

\* C7: a download is reported a success only when its file passes validation
\* (it exists, has the expected size when that is known, and is an archive),
\* also when it is accepted because it was already there. Stated for the
\* descriptors whose destination no other descriptor shares.
C7_ResultsAreValidated ==
  [][\A i \in DOMAIN tasks :
       (pc = "download" /\ pc' = "download" /\ tasks[i].pc # "done"
        /\ tasks'[i].pc = "done" /\ tasks'[i].result /\ Unshared(i))
       => validate_download(files', Destination(zip_files[i]), zip_files[i])]_vars

\* C8: when a fetched artifact fails validation, its file is deleted as the
\* task returns, the descriptor is reported failed, and the files other
\* descriptors have downloaded are left as they are.
C8_ValidationFailureCleansUp ==
  [][\A i \in DOMAIN tasks :
       (pc = "download" /\ pc' = "download" /\ tasks[i].pc = "unlink"
        /\ tasks'[i].pc = "done")
       => /\ ~exists(files', Destination(zip_files[i]))
          /\ ~tasks'[i].result
          /\ \A j \in DOMAIN tasks \ {i} :
               (tasks[j].pc = "done" /\ tasks[j].result
                /\ exists(files, Destination(zip_files[j])))
               => /\ exists(files', Destination(zip_files[j]))
                  /\ files'[Destination(zip_files[j])]
                       = files[Destination(zip_files[j])]]_vars

\* C9: the page fetch, every metadata probe and every artifact download is
\* retried: one that is given up as failed has made retry_attempts tries.
C9_EveryFetchRetries ==
  /\ req.status = "failed" => req.attempt = retry_attempts
  /\ \A k \in DOMAIN zip_files :
       zip_files[k].size = NoSize => zip_files[k].heads = retry_attempts
  /\ \A i \in DOMAIN tasks :
       tasks[i].fault = "get" => tasks[i].fetches = retry_attempts

\* C10: when the chain has run, every archive that extraction produced was
\* passed back through the chain, no output of the tabular converter was, and
\* a downloaded archive that holds an archive that holds one tabular file is
\* unpacked at both levels and yields exactly one structured-record file.
ChainDone == pc = "process" /\ todo = << >>

NestedInput ==
  /\ Len(downloaded_files) = 1
  /\ exists(files, downloaded_files[1])
  /\ files[downloaded_files[1]] = "NESTED"

C10_ChainRecursion ==
  ChainDone =>
    /\ \A k \in DOMAIN processed :
         Lower(processed[k].ext) = "zip" =>
           [proc |-> "ZipProcessor", path |-> processed[k]] \in Range(invoked)
    /\ \A n \in DOMAIN invoked :
         invoked[n].proc = "CSVToJSONConverter" =>
           Path(OutputDir, invoked[n].path.stem, "json") \notin Range(calls)
    /\ NestedInput =>
         LET top == downloaded_files[1]
             inner == Path(Append(OutputDir, top.stem), "inner", "zip")
             data == Path(Append(OutputDir, "inner"), "data", "csv")
         IN /\ invoked = << [proc |-> "ZipProcessor", path |-> top],
                            [proc |-> "ZipProcessor", path |-> inner],
                            [proc |-> "CSVToJSONConverter", path |-> data] >>
            /\ Cardinality({k \in DOMAIN processed : processed[k].ext = "json"}) = 1
            /\ exists(files, Path(OutputDir, "data", "json"))

C10_Witness == ChainDone /\ NestedInput /\ Len(processed) = 3

\* C11: an unexpected error of the cycle, such as a cache file that cannot be
\* written, is notified at ERROR severity and ends the cycle at once: when
\* detect has found a new fingerprint and could not store it, the next step of
\* the cycle is the ERROR notification and the return.
SaveFailed ==
  /\ pc = "detected"
  /\ det.ret
  /\ load_cache(cache) # md5(det.fetched)

C11_CycleErrorEscalated ==
  [][SaveFailed => (pc' = "idle" /\ notes' = Append(notes, "ERROR"))]_vars

\* The part of C11 the handler of run_monitoring_cycle provides: once ERROR has
\* been notified the cycle has ended, nothing was downloaded or processed in
\* it, and the scheduler can start the next cycle.
C11_RaisedErrorEndsCycle ==
  (notes # << >> /\ notes[Len(notes)] = "ERROR") =>
    /\ pc = "idle"
    /\ tasks = << >> /\ downloaded_files = << >>
    /\ calls = << >> /\ invoked = << >>
    /\ cycle < MaxCycles => ENABLED StartCycle

\* C12: the tabular converter tries its encodings in order and converts with
\* the first that decodes: a file is converted if and only if some candidate
\* decodes it, also when the first candidate does not and when the file
\* decodes to zero records, and the encoding used is the first that decodes.
Decodes(b, enc) == Try(b, enc) \in {"rows", "norows"}

Decodable(b) == \E k \in DOMAIN encodings : Decodes(b, encodings[k])

C12_EncodingFallback ==
  ChainDone =>
    \A n \in DOMAIN invoked :
      (invoked[n].proc = "CSVToJSONConverter" /\ exists(files, invoked[n].path)) =>
        LET b == files[invoked[n].path]
            json == Path(OutputDir, invoked[n].path.stem, "json")
        IN /\ Decodable(b) <=> json \in Range(processed)
           /\ Decodable(b) =>
                /\ Decodes(b, read_csv(b).encoding)
                /\ \A k \in 1 .. read_csv(b).tried - 1 : ~Decodes(b, encodings[k])

\* C12 without the file that decodes to zero records: the fallback itself.
C12_WhenRecords ==
  ChainDone =>
    \A n \in DOMAIN invoked :
      (invoked[n].proc = "CSVToJSONConverter" /\ exists(files, invoked[n].path)
       /\ files[invoked[n].path] # "CSV_EMPTY") =>
        LET b == files[invoked[n].path]
            json == Path(OutputDir, invoked[n].path.stem, "json")
        IN /\ Decodable(b) <=> json \in Range(processed)
           /\ Decodable(b) =>
                /\ Decodes(b, read_csv(b).encoding)
                /\ \A k \in 1 .. read_csv(b).tried - 1 : ~Decodes(b, encodings[k])

\* C13: list returns a descriptor for every qualifying link of the page; when
\* the metadata probe of a link fails (it raises, or the response is not 2xx)
\* the expected size is left unset; and a descriptor with an unset size is not
\* failed by validation when an archive is at its destination.
ProbeFailed(fi) == fi.probe \in {"fail", "errpage"}

C13_ProbeFailureDegrades ==
  /\ listed \notin {None, "failed"} => Len(zip_files) = Len(ZipLinks(listed))
  /\ \A k \in DOMAIN zip_files :
       ProbeFailed(zip_files[k]) => zip_files[k].size = NoSize
  /\ \A i \in DOMAIN tasks :
       (zip_files[i].size = NoSize /\ Unshared(i) /\ tasks[i].pc = "unlink") =>
         ~(exists(files, Destination(zip_files[i]))
           /\ IsZip(files[Destination(zip_files[i])]))

\* C13 for the probes that raise.
C13_WhenProbeRaises ==
  /\ listed \notin {None, "failed"} => Len(zip_files) = Len(ZipLinks(listed))
  /\ \A k \in DOMAIN zip_files :
       zip_files[k].probe = "fail" => zip_files[k].size = NoSize
  /\ \A i \in DOMAIN tasks :
       (zip_files[i].size = NoSize /\ Unshared(i) /\ tasks[i].pc = "unlink") =>
         ~(exists(files, Destination(zip_files[i]))
           /\ IsZip(files[Destination(zip_files[i])]))

\* C14: the retrying fetch makes at most retry_attempts tries, stops at the
\* first try that succeeds, waits 2^k after failed try k (counted from 0) only
\* when another try follows, and after the last failed try returns a failure
\* value.
C14_RetryBackoff ==
  /\ req.attempt <= retry_attempts
  /\ \A k \in DOMAIN req.sleeps : req.sleeps[k] = Pow2(k - 1)
  /\ req.status = "ok" =>
       /\ req.attempt < retry_attempts
       /\ Len(req.sleeps) = req.attempt
  /\ req.status = "failed" =>
       /\ req.attempt = retry_attempts
       /\ req.response = None
       /\ Len(req.sleeps) = retry_attempts - 1

\* C14 with the wait the loop also makes after its last failed try.
C14_WithLastWait ==
  /\ req.attempt <= retry_attempts
  /\ \A k \in DOMAIN req.sleeps : req.sleeps[k] = Pow2(k - 1)
  /\ req.status = "ok" =>
       /\ req.attempt < retry_attempts
       /\ Len(req.sleeps) = req.attempt
  /\ req.status = "failed" =>
       /\ req.attempt = retry_attempts
       /\ req.response = None
       /\ Len(req.sleeps) = retry_attempts

\* C15: no two download tasks that are running at the same time have the
\* destination open for writing, or are about to validate or delete it, at
\* the same path.
Writing(i) == tasks[i].pc \in {"stream", "validate", "unlink"}

C15_NoWriteConflicts ==
  \A i, j \in DOMAIN tasks :
    (i # j /\ Writing(i) /\ Writing(j)) =>
      Destination(zip_files[i]) # Destination(zip_files[j])

\* C16: whatever list of processors the monitor was constructed with, one call
\* of _process_single_file on a file invokes the process operation of at most
\* one processor: no path has more process invocations than calls.
Count(q, x) == Cardinality({k \in DOMAIN q : q[k] = x})

InvokedPaths == [k \in DOMAIN invoked |-> invoked[k].path]

C16_AtMostOneProcessor ==
  \A p \in Range(calls) : Count(InvokedPaths, p) <= Count(calls, p)

\* C17: _process_single_file terminates on every input: the chain reaches the
\* point where no call and no process invocation is left.
C17_RunOneTerminates == <>(todo = << >>)

C17_Witness ==
  /\ todo = << >>
  /\ files[downloaded_files[1]] = "SELF2"
  /\ Len(calls) >= 4
  /\ Len(registry) = 2

\* C18: when the chain has run, a file on which its processor failed has
\* contributed no output, no error has left the chain, and every other file
\* (every downloaded file, every file extracted from an archive) was passed
\* to its processor, with the output of every readable tabular file in the
\* result.
Failed(n) ==
  /\ exists(files, invoked[n].path)
  /\ IF invoked[n].proc = "ZipProcessor"
     THEN ~IsZip(files[invoked[n].path])
     ELSE ~Readable(files[invoked[n].path])

Converted(n) ==
  /\ invoked[n].proc = "CSVToJSONConverter"
  /\ exists(files, invoked[n].path)
  /\ Readable(files[invoked[n].path])

C18_ProcessorFailureIsolation ==
  ChainDone =>
    /\ "ERROR" \notin Range(notes)
    /\ \A k \in DOMAIN downloaded_files : downloaded_files[k] \in Range(calls)
    /\ \A k \in DOMAIN processed :
         processed[k].ext # "json" => processed[k] \in Range(calls)
    /\ \A p \in Range(calls) :
         \A k \in DOMAIN Matching(p) :
           [proc |-> Matching(p)[k], path |-> p] \in Range(invoked)
    /\ \A n \in DOMAIN invoked :
         /\ Failed(n) =>
              \A k \in DOMAIN processed :
                /\ processed[k] # Path(OutputDir, invoked[n].path.stem, "json")
                /\ invoked[n].proc = "ZipProcessor" =>
                     processed[k].dir # Append(OutputDir, invoked[n].path.stem)
         /\ Converted(n) =>
              /\ Path(OutputDir, invoked[n].path.stem, "json") \in Range(processed)
              /\ exists(files, Path(OutputDir, invoked[n].path.stem, "json"))

C18_Witness ==
  /\ ChainDone
  /\ \E n, m \in DOMAIN invoked : n < m /\ Failed(n) /\ Converted(m)

\* C19: in a cycle no file is passed to the chain and no processor is invoked
\* before every download task of the cycle has finished, and the chain then
\* runs one invocation at a time: each step makes at most one call or one
\* invocation, and none while a download task exists.
C19_ProcessingAfterDownloads ==
  [][/\ (pc = "download" /\ pc' = "process") =>
          \A i \in DOMAIN tasks : tasks[i].pc = "done"
     /\ (Len(calls') > Len(calls) \/ Len(invoked') > Len(invoked)) =>
          /\ pc = "process" /\ tasks = << >> /\ tasks' = << >>
          /\ Len(calls') + Len(invoked') = Len(calls) + Len(invoked) + 1
     /\ pc' = "download" => (calls' = << >> /\ invoked' = << >>)]_vars

C19_Witness ==
  /\ pc = "process"
  /\ Len(invoked) >= 2
  /\ Len(zip_files) = 2
  /\ Len(downloaded_files) = 1

\* C20: an artifact that a cycle failed to list or to download is fetched in a
\* later cycle while the page stays as it is. A later cycle lists and
\* downloads only when its detect returns true, so: when a cycle that
\* detected a change ends with its listing failed or with fewer files
\* downloaded than listed, a detect that fetches the page as it is now
\* returns true.
CycleFailed ==
  \/ listed = "failed"
  \/ /\ listed \notin {None, "failed"}
     /\ "ERROR" \notin Range(notes)
     /\ Len(downloaded_files) < Len(zip_files)

Redetects ==
  detect_changes([NoReq EXCEPT !.status = "ok", !.response = page], cache,
                 cycle + 1, FALSE, "ok")[1]

C20_FailedArtifactsAreRetried ==
  (pc = "idle" /\ cycle > 0 /\ det.ret /\ CycleFailed) => Redetects

\* C21: when a download task reports failure (its request raised, its stream
\* broke, or validation failed), no file the task wrote remains at its
\* destination: the path is absent unless a file was there before the task
\* touched it. Stated for the descriptors whose destination no other
\* descriptor shares.
Wrote(i) == tasks[i].pc \in {"stream", "unlink"}

ReportsFailure(i) ==
  /\ pc = "download" /\ pc' = "download"
  /\ tasks[i].pc # "done"
  /\ tasks'[i].pc = "done"
  /\ ~tasks'[i].result

C21_FailedDownloadLeavesNoFile ==
  [][\A i \in DOMAIN tasks :
       (ReportsFailure(i) /\ Unshared(i)
        /\ (Wrote(i) \/ ~exists(files, Destination(zip_files[i]))))
       => ~exists(files', Destination(zip_files[i]))]_vars

\* What holds of C21: a failure reported from the request or from validation
\* leaves no file of the task behind.
C21_ExceptBrokenStream ==
  [][\A i \in DOMAIN tasks :
       (ReportsFailure(i) /\ Unshared(i) /\ tasks[i].pc # "stream"
        /\ (Wrote(i) \/ ~exists(files, Destination(zip_files[i]))))
       => ~exists(files', Destination(zip_files[i]))]_vars

\* C22: within one run of the chain, a processor applied to an input that was
\* not processed before in the run returns no output path that was already
\* produced in the run (by another input): nothing produced earlier is
\* overwritten later.
FirstTime == invoked'[Len(invoked')].path \notin Range(InvokedPaths)

Produced == {processed'[k] : k \in Len(processed) + 1 .. Len(processed')}

C22_DistinctInputsDistinctOutputs ==
  [][(pc = "process" /\ Len(invoked') > Len(invoked) /\ FirstTime)
     => Produced \cap Range(processed) = {}]_vars

\* What holds of C22: the outputs of one processor.process call are pairwise
\* distinct paths.
C22_WithinOneCall ==
  [][(pc = "process" /\ Len(invoked') > Len(invoked))
     => Cardinality(Produced) = Len(processed') - Len(processed)]_vars

\* C23: in a cycle that detected a change, the artifact list is derived from
\* the page body whose fingerprint detect stored in that cycle.
C23_ListFromFingerprintedPage ==
  (pc \in {"listed", "download", "process"} /\ det.ret
   /\ listed \notin {None, "failed"})
    => listed = det.fetched

\* What holds of C23: when the page is not edited between the two fetches, the
\* list is derived from the body detect fingerprinted.
C23_WhenPageIsStill ==
  (pc \in {"listed", "download", "process"} /\ det.ret
   /\ listed \notin {None, "failed"} /\ changes = 0)
    => listed = det.fetched

====
